---- MODULE Spec2Model ----
(***************************************************************************)
(* Model of the hermes physical layer: the Instant time value (time.rs),   *)
(* the Checksum capability lookups and the Device token contract           *)
(* (physical/mod.rs) and the pcap writer PcapSink (packet_capture.rs).     *)
(*                                                                         *)
(* Fixed-width integers that do not fit the model checker's integers are   *)
(* kept as little-endian sequences of bytes: an i64 is 8 bytes in two's    *)
(* complement, a u32 is 4 bytes, a u16 is 2 bytes.                         *)
(***************************************************************************)
EXTENDS Integers, Sequences, FiniteSets, TLC

VARIABLES
    endian,          \* byte order of the build target: "little" or "big"
    overflowChecks,  \* TRUE: arithmetic overflow panics (debug), FALSE: it wraps (release)
    instant,         \* time.rs: the Instant built by the last constructor call
    prevInstant,     \* time.rs: the Instant built by the call before that
    timeCall,        \* last Instant operation and its outcome
    caps,            \* mod.rs: the ChecksumCapabilities of the device descriptor
    csQuery,         \* last Checksum::tx / Checksum::rx call and its result
    tokens,          \* mod.rs: tokens of the device that are alive (borrow the device)
    polls,           \* number of receive/transmit polls made so far
    lastPoll,        \* last poll of the device and what it returned
    sink,            \* packet_capture.rs: the PcapSink (bytes, flushed prefix, status, events)
    pre,             \* bytes of the sink when the last PcapSink call started
    call,            \* last PcapSink call and its arguments
    calls            \* all PcapSink calls made on the sink, in order

timeVars == <<instant, prevInstant, timeCall>>
csVars == <<caps, csQuery>>
devVars == <<tokens, polls, lastPoll>>
pcapVars == <<sink, pre, call, calls>>
buildVars == <<endian, overflowChecks>>
vars == <<endian, overflowChecks, instant, prevInstant, timeCall, caps, csQuery,
          tokens, polls, lastPoll, sink, pre, call, calls>>

(***************************************************************************)
(* Byte-sequence arithmetic.                                               *)
(***************************************************************************)
Byte == 0..255

RECURSIVE BytesOfNat(_, _)
\* the w low bytes of the natural number n, least significant first
BytesOfNat(n, w) ==
    IF w = 0 THEN <<>> ELSE <<n % 256>> \o BytesOfNat(n \div 256, w - 1)

RECURSIVE NatOfBytes(_)
\* the natural number of a short little-endian byte sequence
NatOfBytes(b) ==
    IF b = <<>> THEN 0 ELSE Head(b) + 256 * NatOfBytes(Tail(b))

Reverse(s) == [i \in 1..Len(s) |-> s[Len(s) + 1 - i]]

RECURSIVE MulBytes(_, _, _)
\* unsigned x * k + carry: the bytes of x's width followed by the carry out
MulBytes(x, k, carry) ==
    IF x = <<>> THEN <<carry>>
    ELSE LET p == Head(x) * k + carry
         IN  <<p % 256>> \o MulBytes(Tail(x), k, p \div 256)

RECURSIVE NotBytes(_)
NotBytes(x) ==
    IF x = <<>> THEN <<>> ELSE <<255 - Head(x)>> \o NotBytes(Tail(x))

RECURSIVE IncBytes(_)
\* x + 1 modulo the width of x
IncBytes(x) ==
    IF x = <<>> THEN <<>>
    ELSE IF Head(x) = 255 THEN <<0>> \o IncBytes(Tail(x))
    ELSE <<Head(x) + 1>> \o Tail(x)

\* two's complement negation
NegBytes(x) == IncBytes(NotBytes(x))

IsNeg(x) == x[Len(x)] >= 128

RECURSIVE DivModBytes(_, _, _)
\* unsigned long division of x (little-endian) by d, from the top byte down:
\* <<quotient bytes, remainder>>
DivModBytes(x, d, i) ==
    IF i = 0 THEN <<x, 0>>
    ELSE LET hi == DivModBytes(x, d, i - 1)
             \* hi[1] holds the quotient of the bytes above position Len(x)+1-i
             pos == Len(x) + 1 - i
             cur == hi[2] * 256 + x[pos]
         IN  <<[hi[1] EXCEPT ![pos] = cur \div d], cur % d>>

RECURSIVE LtUnsigned(_, _)
\* unsigned x < y, both of the same width
LtUnsigned(x, y) ==
    IF x = <<>> THEN FALSE
    ELSE LET n == Len(x)
         IN  IF x[n] # y[n] THEN x[n] < y[n]
             ELSE LtUnsigned(SubSeq(x, 1, n - 1), SubSeq(y, 1, n - 1))

\* signed (two's complement) x < y
LtSigned(x, y) ==
    IF IsNeg(x) # IsNeg(y) THEN IsNeg(x) ELSE LtUnsigned(x, y)

I64 == 8
MinI64 == <<0, 0, 0, 0, 0, 0, 0, 128>>
MaxI64 == <<255, 255, 255, 255, 255, 255, 255, 127>>

\* i64 multiplication self * k for a small positive k: the wrapped product and
\* whether the exact product leaves the i64 range
MulI64(x, k) ==
    LET wide == MulBytes(x, k, 0)
        mag == MulBytes(IF IsNeg(x) THEN NegBytes(x) ELSE x, k, 0)
        low == SubSeq(mag, 1, I64)
    IN  [value |-> SubSeq(wide, 1, I64),
         overflow |-> IF IsNeg(x)
                      THEN mag[I64 + 1] # 0 \/ (IsNeg(low) /\ low # MinI64)
                      ELSE mag[I64 + 1] # 0 \/ IsNeg(low)]

\* i64 division and remainder by a small positive d, truncating toward zero
DivI64(x, d) ==
    IF IsNeg(x) THEN NegBytes(DivModBytes(NegBytes(x), d, I64)[1])
    ELSE DivModBytes(x, d, I64)[1]

RemI64(x, d) ==
    IF IsNeg(x) THEN NegBytes(BytesOfNat(DivModBytes(NegBytes(x), d, I64)[2], I64))
    ELSE BytesOfNat(DivModBytes(x, d, I64)[2], I64)

(***************************************************************************)
(* time.rs: Instant                                                        *)
(***************************************************************************)
\* struct Instant { micros: i64 }
Instant(m) == [micros |-> m]

\* the private const constructor behind ZERO
from_micros_const(micros) == Instant(micros)

ZERO == from_micros_const(BytesOfNat(0, I64))

\* a constructor either returns an Instant or panics on arithmetic overflow;
\* without overflow checks the product wraps
Built(i) == [status |-> "ok", value |-> i]
OverflowPanic == [status |-> "overflow", value |-> ZERO]

CheckedMul(x, k) ==
    LET p == MulI64(x, k)
    IN  IF p.overflow /\ overflowChecks THEN OverflowPanic
        ELSE Built(Instant(p.value))

from_micros(micros) == Built(Instant(micros))

from_millis_slip(millis) == CheckedMul(millis, 100)
from_millis(millis) == CheckedMul(millis, 1000)

from_secs(secs) == CheckedMul(secs, 1000000)

\* #[derive(PartialEq, Eq, PartialOrd, Ord)] on the one-field struct
InstantEq(a, b) == a.micros = b.micros
InstantLt(a, b) == LtSigned(a.micros, b.micros)

\* Instant::secs and Instant::micros, called by PcapSink::packet_header
secs(i) == DivI64(i.micros, 1000000)
micros(i) == RemI64(i.micros, 1000000)

\* largest arguments whose product still fits an i64
MaxMillisArg == DivI64(MaxI64, 1000)
MaxSecsArg == DivI64(MaxI64, 1000000)

\* constructor arguments tried, in increasing order: every one is a value an
\* Into<i64> argument can take
TimeInputs ==
    <<MinI64, NegBytes(BytesOfNat(1, I64)), BytesOfNat(0, I64), BytesOfNat(1, I64),
      BytesOfNat(1000, I64), MaxSecsArg, IncBytes(MaxSecsArg), MaxMillisArg, IncBytes(MaxMillisArg), MaxI64>>

Ctors == {"from_micros", "from_millis", "from_secs"}

Construct(fn, arg) ==
    CASE fn = "from_micros" -> from_micros(arg)
      [] fn = "from_millis" -> from_millis(arg)
      [] fn = "from_secs" -> from_secs(arg)

TimeInit ==
    /\ instant = ZERO
    /\ prevInstant = ZERO
    /\ timeCall = [tried |-> <<"ZERO", 3>>, status |-> "ok",
                   fn |-> "ZERO", arg |-> 3, prevFn |-> "ZERO", prevArg |-> 3,
                   compared |-> FALSE, eq |-> FALSE, lt |-> FALSE]

\* Instant::from_micros / from_millis / from_secs called with TimeInputs[i];
\* timeCall keeps the call tried last and its status, and which calls built
\* instant (fn, arg) and prevInstant (prevFn, prevArg)
New(fn, i) ==
    LET r == Construct(fn, TimeInputs[i])
    IN  /\ instant' = IF r.status = "ok" THEN r.value ELSE instant
        /\ prevInstant' = IF r.status = "ok" THEN instant ELSE prevInstant
        /\ timeCall' = IF r.status = "ok"
                       THEN [tried |-> <<fn, i>>, status |-> "ok",
                             fn |-> fn, arg |-> i,
                             prevFn |-> timeCall.fn, prevArg |-> timeCall.arg,
                             compared |-> FALSE, eq |-> FALSE, lt |-> FALSE]
                       ELSE [timeCall EXCEPT !.tried = <<fn, i>>, !.status = r.status,
                                             !.compared = FALSE, !.eq = FALSE,
                                             !.lt = FALSE]
        /\ UNCHANGED <<buildVars, csVars, devVars, pcapVars>>

FromMicros == \E i \in 1..Len(TimeInputs) : New("from_micros", i)
FromMillis == \E i \in 1..Len(TimeInputs) : New("from_millis", i)
FromSecs == \E i \in 1..Len(TimeInputs) : New("from_secs", i)

\* prevInstant == instant and prevInstant < instant, by the derived impls
Compare ==
    /\ timeCall.status = "ok"
    /\ ~timeCall.compared
    /\ timeCall' = [timeCall EXCEPT !.compared = TRUE,
                                    !.eq = InstantEq(prevInstant, instant),
                                    !.lt = InstantLt(prevInstant, instant)]
    /\ UNCHANGED <<instant, prevInstant, buildVars, csVars, devVars, pcapVars>>

TimeNext == FromMicros \/ FromMillis \/ FromSecs \/ Compare

(***************************************************************************)
(* physical/mod.rs: Checksum and ChecksumCapabilities                      *)
(***************************************************************************)
\* enum Checksum { Both, None, Rx, Tx }
Checksum == {"Both", "None", "Rx", "Tx"}

\* #[default] Both
ChecksumDefault == "Both"

Protocols == {"ipv4", "udp", "tcp"}

\* struct ChecksumCapabilities { ipv4, udp, tcp }
ChecksumCapabilities == [Protocols -> Checksum]

\* Checksum::tx
tx_slip(self) == self \in {"Both", "Rx"}
tx(self) == IF self \in {"Both", "Tx"} THEN TRUE ELSE FALSE

\* Checksum::rx
rx(self) == IF self \in {"Both", "Rx"} THEN TRUE ELSE FALSE

ChecksumInit ==
    /\ caps = [p \in Protocols |-> ChecksumDefault]
    /\ csQuery = [fn |-> "none", proto |-> "ipv4", result |-> FALSE]

\* a device descriptor is built with some checksum behaviour per protocol
SetCapabilities ==
    /\ \E c \in ChecksumCapabilities : caps' = c
    /\ csQuery' = [csQuery EXCEPT !.fn = "none", !.result = FALSE]
    /\ UNCHANGED <<buildVars, timeVars, devVars, pcapVars>>

\* an upper layer asks whether the checksum of a protocol is computed on send
QueryTx ==
    /\ \E p \in Protocols :
         csQuery' = [fn |-> "tx", proto |-> p, result |-> tx(caps[p])]
    /\ UNCHANGED <<caps, buildVars, timeVars, devVars, pcapVars>>

\* an upper layer asks whether the checksum of a protocol is verified on receive
QueryRx ==
    /\ \E p \in Protocols :
         csQuery' = [fn |-> "rx", proto |-> p, result |-> rx(caps[p])]
    /\ UNCHANGED <<caps, buildVars, timeVars, devVars, pcapVars>>

ChecksumNext == SetCapabilities \/ QueryTx \/ QueryRx

(***************************************************************************)
(* physical/mod.rs: Device, RxToken, TxToken                               *)
(*                                                                         *)
(* receive and transmit take `&mut self` and return tokens of the types    *)
(* RxToken<'_> and TxToken<'_>: the tokens carry the lifetime of that      *)
(* exclusive borrow, so the device is borrowed for as long as one of them  *)
(* is alive, and a program that polls the device meanwhile is rejected.    *)
(* RxToken and TxToken declare no method: a token leaves only by being     *)
(* dropped or moved away.  Whether a poll finds a frame or a free transmit *)
(* slot is the implementor's business and is left open.                    *)
(***************************************************************************)
MaxPolls == 6

PollTimes == {BytesOfNat(0, I64), BytesOfNat(1000, I64)}

\* the exclusive borrow `&mut self` can be taken: no token of an earlier
\* borrow is alive
MutBorrowFree_slip == TRUE
MutBorrowFree == tokens = {}

Token(kind, poll) == [kind |-> kind, poll |-> poll]

DeviceInit ==
    /\ tokens = {}
    /\ polls = 0
    /\ lastPoll = [fn |-> "none", timestamp |-> ZERO, some |-> FALSE]

\* Device::receive: Option<(RxToken<'_>, TxToken<'_>)>
Receive ==
    /\ polls < MaxPolls
    /\ MutBorrowFree
    /\ \E t \in PollTimes, some \in BOOLEAN :
         /\ tokens' = IF some
                      THEN tokens \cup {Token("rx", polls + 1), Token("tx", polls + 1)}
                      ELSE tokens
         /\ lastPoll' = [fn |-> "receive", timestamp |-> from_micros(t).value,
                         some |-> some]
    /\ polls' = polls + 1
    /\ UNCHANGED <<buildVars, timeVars, csVars, pcapVars>>

\* Device::transmit: Option<TxToken<'_>>
Transmit ==
    /\ polls < MaxPolls
    /\ MutBorrowFree
    /\ \E t \in PollTimes, some \in BOOLEAN :
         /\ tokens' = IF some THEN tokens \cup {Token("tx", polls + 1)} ELSE tokens
         /\ lastPoll' = [fn |-> "transmit", timestamp |-> from_micros(t).value,
                         some |-> some]
    /\ polls' = polls + 1
    /\ UNCHANGED <<buildVars, timeVars, csVars, pcapVars>>

\* a token is resolved: it is dropped, or moved into whatever uses it up
Resolve ==
    /\ \E t \in tokens : tokens' = tokens \ {t}
    /\ UNCHANGED <<polls, lastPoll, buildVars, timeVars, csVars, pcapVars>>

DeviceNext == Receive \/ Transmit \/ Resolve

(***************************************************************************)
(* physical/packet_capture.rs: PcapLink                                    *)
(***************************************************************************)
\* enum_with_unknown! { pub enum PcapLink(u32) { Ethernet = 1, Ip = 101 } }:
\* the named variants and Unknown(u32)
Ethernet == [tag |-> "Ethernet", raw |-> <<>>]
Ip == [tag |-> "Ip", raw |-> <<>>]
Unknown(v) == [tag |-> "Unknown", raw |-> v]

EthernetCode == BytesOfNat(1, 4)
IpCode == BytesOfNat(101, 4)

\* impl From<u32> for PcapLink
PcapLinkFrom(value) ==
    CASE value = EthernetCode -> Ethernet
      [] value = IpCode -> Ip
      [] OTHER -> Unknown(value)

\* impl From<PcapLink> for u32
PcapLinkInto(link) ==
    CASE link = Ethernet -> EthernetCode
      [] link = Ip -> IpCode
      [] OTHER -> link.raw

\* u32 codes tried: the two named ones, neighbours, LINKTYPE_IPV4 and u32::MAX
LinkCodes ==
    {BytesOfNat(0, 4), EthernetCode, BytesOfNat(2, 4), IpCode, BytesOfNat(228, 4),
     <<255, 255, 255, 255>>}

(***************************************************************************)
(* physical/packet_capture.rs: PcapSink                                    *)
(*                                                                         *)
(* A sink is [bytes, flushed, status, events]: the bytes written so far,   *)
(* how many of them the last flush covered, "ok" or the panic that unwound *)
(* the call, and the write/flush events of the current call.  After a      *)
(* panic the rest of the call is skipped.                                  *)
(***************************************************************************)
U16_SIZE == 2
U32_SIZE == 4
STD_MAGIC_NUMBER == <<212, 195, 178, 161>>   \* 0xA1B2C3D4, least significant byte first
MAX_LEN == 65535

Panic(self, why) == [self EXCEPT !.status = why]

\* fn write(&mut self, content: &[u8]), for a sink that appends to a buffer
write(self, content) ==
    IF self.status # "ok" THEN self
    ELSE [self EXCEPT !.bytes = @ \o content,
                      !.events = Append(@, <<"write", Len(content)>>)]

\* fn flush(&mut self), for the same sink
flush(self) ==
    IF self.status # "ok" THEN self
    ELSE [self EXCEPT !.flushed = Len(self.bytes),
                      !.events = Append(@, <<"flush", 0>>)]

\* a value's bytes in the byte order of the target
NativeOrder(le) == IF endian = "little" THEN le ELSE Reverse(le)

\* byteorder's NativeEndian::write_u16 / write_u32: the value goes to the first
\* bytes of buf; it panics when buf is shorter than the value
NativeEndianWrite(buf, le) ==
    IF Len(buf) < Len(le) THEN [status |-> "index", buf |-> buf]
    ELSE [status |-> "ok",
          buf |-> NativeOrder(le) \o SubSeq(buf, Len(le) + 1, Len(buf))]

\* PcapSink::write_u16: the buffer is the two-element array [0u8, Self::U16_SIZE]
write_u16(self, content) ==
    LET bytes == <<0, U16_SIZE>>
        w == NativeEndianWrite(bytes, content)
    IN  IF self.status # "ok" THEN self
        ELSE IF w.status # "ok" THEN Panic(self, w.status)
        ELSE write(self, w.buf)

\* PcapSink::write_u32: the buffer is the two-element array [0u8, Self::U32_SIZE]
write_u32(self, content) ==
    LET bytes == <<0, U32_SIZE>>
        w == NativeEndianWrite(bytes, content)
    IN  IF self.status # "ok" THEN self
        ELSE IF w.status # "ok" THEN Panic(self, w.status)
        ELSE write(self, w.buf)

\* PcapSink::global_header
global_header(self, link) ==
    LET s1 == write_u32(self, STD_MAGIC_NUMBER)
        s2 == write_u16(s1, BytesOfNat(2, 2))
        s3 == write_u16(s2, BytesOfNat(4, 2))
        s4 == write_u32(s3, BytesOfNat(0, 4))
        s5 == write_u32(s4, BytesOfNat(0, 4))
        s6 == write_u32(s5, BytesOfNat(MAX_LEN, 4))
    IN  write_u32(s6, PcapLinkInto(link))

\* `as u32` of an i64 and of a usize
I64AsU32(x) == SubSeq(x, 1, 4)
UsizeAsU32(n) == BytesOfNat(n, 4)

\* PcapSink::packet_header
packet_header(self, timestamp, len) ==
    IF self.status # "ok" THEN self
    ELSE IF ~(len <= MAX_LEN) THEN Panic(self, "assert")
    ELSE LET s1 == write_u32(self, I64AsU32(secs(timestamp)))
             s2 == write_u32(s1, I64AsU32(micros(timestamp)))
             s3 == write_u32(s2, UsizeAsU32(len))
         IN  write_u32(s3, UsizeAsU32(len))

\* PcapSink::packet
packet(self, timestamp, frame) ==
    LET s1 == packet_header(self, timestamp, Len(frame))
        s2 == write(s1, frame)
    IN  flush(s2)

MaxCalls == 4

\* frames handed to packet: empty, a 14-byte Ethernet header, MAX_LEN bytes,
\* MAX_LEN + 1 bytes
Frame(n) == [i \in 1..n |-> i % 256]
Frames == <<Frame(0), Frame(14), Frame(MAX_LEN), Frame(MAX_LEN + 1)>>

\* lengths handed to packet_header
HeaderLens == {0, 14, MAX_LEN - 1, MAX_LEN, MAX_LEN + 1}

\* timestamps of captured frames: ZERO, from_secs(100), 1.5 s, -1 us
PcapTimes ==
    <<ZERO, Instant(BytesOfNat(100000000, I64)), Instant(BytesOfNat(1500000, I64)),
      Instant(NegBytes(BytesOfNat(1, I64)))>>

\* contents handed to write and values handed to write_u16 / write_u32
Contents == {<<7>>, <<1, 2>>}
U16Values == {BytesOfNat(2, 2), BytesOfNat(258, 2)}
U32Values == {BytesOfNat(1, 4), STD_MAGIC_NUMBER}

PcapInit ==
    /\ sink = [bytes |-> <<>>, flushed |-> 0, status |-> "ok", events |-> <<>>]
    /\ pre = <<>>
    /\ call = [fn |-> "none"]
    /\ calls = <<>>

\* one call of a PcapSink method by the program that owns the sink; a panic
\* ends that program
Call(c, after) ==
    /\ sink.status = "ok"
    /\ Len(calls) < MaxCalls
    /\ sink' = after
    /\ pre' = sink.bytes
    /\ call' = c
    /\ calls' = Append(calls, c)
    /\ UNCHANGED <<buildVars, timeVars, csVars, devVars>>

Fresh == [sink EXCEPT !.events = <<>>]

Write ==
    \E c \in Contents : Call([fn |-> "write", content |-> c], write(Fresh, c))

WriteU16 ==
    \E v \in U16Values : Call([fn |-> "write_u16", content |-> v], write_u16(Fresh, v))

WriteU32 ==
    \E v \in U32Values : Call([fn |-> "write_u32", content |-> v], write_u32(Fresh, v))

Flush == Call([fn |-> "flush"], flush(Fresh))

GlobalHeader ==
    \E v \in LinkCodes :
        Call([fn |-> "global_header", link |-> PcapLinkFrom(v)],
             global_header(Fresh, PcapLinkFrom(v)))

PacketHeader ==
    \E t \in 1..Len(PcapTimes), n \in HeaderLens :
        Call([fn |-> "packet_header", timestamp |-> t, len |-> n],
             packet_header(Fresh, PcapTimes[t], n))

Packet ==
    \E t \in 1..Len(PcapTimes), k \in 1..Len(Frames) :
        Call([fn |-> "packet", timestamp |-> t, frame |-> k, len |-> Len(Frames[k])],
             packet(Fresh, PcapTimes[t], Frames[k]))

PcapNext ==
    Write \/ WriteU16 \/ WriteU32 \/ Flush \/ GlobalHeader \/ PacketHeader \/ Packet

(***************************************************************************)
(* Specifications                                                          *)
(***************************************************************************)
Init ==
    /\ endian \in {"little", "big"}
    /\ overflowChecks \in BOOLEAN
    /\ TimeInit
    /\ ChecksumInit
    /\ DeviceInit
    /\ PcapInit

Next == TimeNext \/ ChecksumNext \/ DeviceNext \/ PcapNext

Spec == Init /\ [][Next]_vars

\* the components do not share state: each is also run on its own
SpecTime == Init /\ [][TimeNext]_vars
SpecChecksum == Init /\ [][ChecksumNext]_vars
SpecDevice == Init /\ [][DeviceNext]_vars
SpecPcap == Init /\ [][PcapNext]_vars

(***************************************************************************)
(* Reading a capture back: the pcap file layout of libpcap, in the byte    *)
(* order of the target that wrote it.                                      *)
(***************************************************************************)
ReadNative(b) == IF endian = "little" THEN b ELSE Reverse(b)

RECURSIVE ReadRecords(_)
\* the packet records of a stream that follows the global header; the last
\* element is [malformed |-> TRUE] when the stream ends inside a record
ReadRecords(s) ==
    IF s = <<>> THEN <<>>
    ELSE IF Len(s) < 16 THEN <<[malformed |-> TRUE]>>
    ELSE LET incl == ReadNative(SubSeq(s, 9, 12))
             n == NatOfBytes(SubSeq(incl, 1, 2))
         IN  IF incl[3] # 0 \/ incl[4] # 0 \/ Len(s) < 16 + n
             THEN <<[malformed |-> TRUE]>>
             ELSE <<[malformed |-> FALSE,
                     ts_sec |-> ReadNative(SubSeq(s, 1, 4)),
                     ts_usec |-> ReadNative(SubSeq(s, 5, 8)),
                     incl_len |-> incl,
                     orig_len |-> ReadNative(SubSeq(s, 13, 16)),
                     data |-> SubSeq(s, 17, 16 + n)]>>
                  \o ReadRecords(SubSeq(s, 17 + n, Len(s)))

ReadCapture(s) ==
    IF Len(s) < 24 THEN [malformed |-> TRUE]
    ELSE [malformed |-> FALSE,
          magic |-> ReadNative(SubSeq(s, 1, 4)),
          version_major |-> ReadNative(SubSeq(s, 5, 6)),
          version_minor |-> ReadNative(SubSeq(s, 7, 8)),
          thiszone |-> ReadNative(SubSeq(s, 9, 12)),
          sigfigs |-> ReadNative(SubSeq(s, 13, 16)),
          snaplen |-> ReadNative(SubSeq(s, 17, 20)),
          network |-> ReadNative(SubSeq(s, 21, 24)),
          records |-> ReadRecords(SubSeq(s, 25, Len(s)))]

(***************************************************************************)
(* Properties                                                              *)
(***************************************************************************)

\* C1: the tokens of one device that are alive all come from one poll: at most
\* one token, or the receive/transmit pair of one receive; a poll never adds a
\* token to tokens that are still alive.
C1_OneOutstandingPoll ==
    /\ Cardinality(tokens) <= 2
    /\ \A a, b \in tokens : a.poll = b.poll
    /\ \A a, b \in tokens : a.kind = b.kind => a = b

C1_Witness ==
    /\ polls >= 2
    /\ tokens = {Token("rx", polls), Token("tx", polls)}
    /\ lastPoll.fn = "receive"

\* C8: tx() is true exactly for Both and Tx, rx() exactly for Both and Rx;
\* only Both has both true and only None has both false.
C8_ChecksumTxRx ==
    /\ csQuery.fn = "tx" =>
         (csQuery.result <=> caps[csQuery.proto] \in {"Both", "Tx"})
    /\ csQuery.fn = "rx" =>
         (csQuery.result <=> caps[csQuery.proto] \in {"Both", "Rx"})
    /\ {c \in Checksum : tx(c) /\ rx(c)} = {"Both"}
    /\ {c \in Checksum : ~tx(c) /\ ~rx(c)} = {"None"}

C8_Witness ==
    /\ csQuery.fn = "tx"
    /\ caps[csQuery.proto] = "Tx"
    /\ csQuery.result

\* the last constructor call tried, its argument and its factor
TriedFn == timeCall.tried[1]
TriedArg == TimeInputs[timeCall.tried[2]]
Factor(fn) == IF fn = "from_millis" THEN 1000 ELSE 1000000
MaxArg(fn) == IF fn = "from_millis" THEN MaxMillisArg ELSE MaxSecsArg

\* the call returned an Instant whose count is exactly n * k, as integers
StoresProduct(n, k) ==
    /\ timeCall.status = "ok"
    /\ ~IsNeg(instant.micros)
    /\ instant.micros \o <<0>> = MulBytes(n, k, 0)

IndexOf(x) == CHOOSE i \in 1..Len(TimeInputs) : TimeInputs[i] = x

\* equality and ordering are those of the microsecond counts, and
\* from_secs(1) == from_millis(1000)
ComparesByMicros ==
    /\ (timeCall.compared /\ timeCall.fn = "from_micros" /\ timeCall.prevFn = "from_micros") =>
         /\ timeCall.eq <=> (timeCall.prevArg = timeCall.arg)
         /\ timeCall.lt <=> (timeCall.prevArg < timeCall.arg)
    /\ (/\ timeCall.compared
        /\ timeCall.prevFn = "from_secs"
        /\ timeCall.prevArg = IndexOf(BytesOfNat(1, I64))
        /\ timeCall.fn = "from_millis"
        /\ timeCall.arg = IndexOf(BytesOfNat(1000, I64))) =>
         timeCall.eq /\ ~timeCall.lt

\* C10 as stated: from_millis(n) stores n * 1000 and from_secs(n) stores
\* n * 1_000_000 for every non-negative n an i64 can hold.
C10_EveryNonNegative ==
    /\ (TriedFn \in {"from_millis", "from_secs"} /\ ~IsNeg(TriedArg)) =>
         StoresProduct(TriedArg, Factor(TriedFn))
    /\ ComparesByMicros

\* C10: from_millis(n) stores n * 1000 for every non-negative n up to
\* i64::MAX / 1000 and from_secs(n) stores n * 1_000_000 for every non-negative
\* n up to i64::MAX / 1_000_000; for a larger n the product overflows: the
\* call panics with overflow checks and stores a wrapped count without them.
\* from_secs(1) equals from_millis(1000); equality and ordering are those of
\* the stored counts.
C10_WithinRange ==
    /\ (/\ TriedFn \in {"from_millis", "from_secs"}
        /\ ~IsNeg(TriedArg)
        /\ ~LtUnsigned(MaxArg(TriedFn), TriedArg)) =>
         StoresProduct(TriedArg, Factor(TriedFn))
    /\ (/\ TriedFn \in {"from_millis", "from_secs"}
        /\ ~IsNeg(TriedArg)
        /\ LtUnsigned(MaxArg(TriedFn), TriedArg)) =>
         /\ ~StoresProduct(TriedArg, Factor(TriedFn))
         /\ timeCall.status = IF overflowChecks THEN "overflow" ELSE "ok"
    /\ ComparesByMicros

C10_Witness ==
    /\ TriedFn = "from_millis"
    /\ TriedArg = MaxMillisArg
    /\ timeCall.status = "ok"
    /\ timeCall.prevFn = "from_secs"
    /\ timeCall.compared

\* the sink holds what it held before the call followed by b
Appended(b) == sink.status = "ok" /\ sink.bytes = pre \o b

ExpectedGlobalHeader(link) ==
    NativeOrder(STD_MAGIC_NUMBER) \o NativeOrder(<<2, 0>>) \o NativeOrder(<<4, 0>>)
    \o NativeOrder(<<0, 0, 0, 0>>) \o NativeOrder(<<0, 0, 0, 0>>)
    \o NativeOrder(<<255, 255, 0, 0>>) \o NativeOrder(PcapLinkInto(link))

\* C3: global_header appends the 24 bytes of the pcap global header in native
\* byte order; a write_u16 appends 2 bytes and a write_u32 appends 4.
C3_GlobalHeaderLayout ==
    /\ call.fn = "global_header" =>
         /\ Appended(ExpectedGlobalHeader(call.link))
         /\ Len(sink.bytes) = Len(pre) + 24
    /\ call.fn = "write_u16" => Appended(NativeOrder(call.content))
    /\ call.fn = "write_u32" => Appended(NativeOrder(call.content))

ExpectedPacketHeader(timestamp, len) ==
    NativeOrder(SubSeq(DivI64(timestamp.micros, 1000000), 1, 4))
    \o NativeOrder(SubSeq(RemI64(timestamp.micros, 1000000), 1, 4))
    \o NativeOrder(BytesOfNat(len, 4)) \o NativeOrder(BytesOfNat(len, 4))

\* C4: packet_header with len <= 65535 appends 16 bytes: seconds, microsecond
\* remainder, len and len again, each a u32.
C4_PacketHeaderLayout ==
    (call.fn = "packet_header" /\ call.len <= MAX_LEN) =>
        /\ Appended(ExpectedPacketHeader(PcapTimes[call.timestamp], call.len))
        /\ Len(sink.bytes) = Len(pre) + 16

\* C5: a packet call writes the four header fields, then the frame in one
\* write, then flushes, and returns with every byte flushed.
C5_PacketWritesThenFlushes ==
    (call.fn = "packet" /\ call.len <= MAX_LEN) =>
        /\ sink.status = "ok"
        /\ sink.events = <<<<"write", 4>>, <<"write", 4>>, <<"write", 4>>, <<"write", 4>>,
                           <<"write", call.len>>, <<"flush", 0>>>>
        /\ sink.flushed = Len(sink.bytes)

\* the half of C6 about lengths above MAX_LEN: the assertion fails and the
\* sink is left as it was
OversizeRejected ==
    (call.fn \in {"packet_header", "packet"} /\ call.len > MAX_LEN) =>
        /\ sink.status = "assert"
        /\ sink.bytes = pre
        /\ sink.events = <<>>

\* C6: a length above 65535 fails the assertion with nothing written, and a
\* length of exactly 65535 is accepted.
C6_LengthBoundary ==
    /\ OversizeRejected
    /\ (call.fn \in {"packet_header", "packet"} /\ call.len = MAX_LEN) =>
         sink.status = "ok"

\* the calls so far are one global_header followed by packets of frames that
\* fit
IsCapture ==
    /\ Len(calls) >= 1
    /\ calls[1].fn = "global_header"
    /\ \A i \in 2..Len(calls) : calls[i].fn = "packet" /\ calls[i].len <= MAX_LEN

ExpectedRecord(c) ==
    [malformed |-> FALSE,
     ts_sec |-> SubSeq(DivI64(PcapTimes[c.timestamp].micros, 1000000), 1, 4),
     ts_usec |-> SubSeq(RemI64(PcapTimes[c.timestamp].micros, 1000000), 1, 4),
     incl_len |-> BytesOfNat(c.len, 4),
     orig_len |-> BytesOfNat(c.len, 4),
     data |-> Frames[c.frame]]

\* C7: a global_header followed by packets reads back as the magic, the code
\* of the link, and one record per packet with its timestamp, its length
\* twice and its bytes.
C7_CaptureRoundTrip ==
    IsCapture =>
        LET cap == ReadCapture(sink.bytes)
        IN  /\ ~cap.malformed
            /\ cap.magic = STD_MAGIC_NUMBER
            /\ cap.network = PcapLinkInto(calls[1].link)
            /\ cap.records = [i \in 1..(Len(calls) - 1) |-> ExpectedRecord(calls[i + 1])]

\* C9: a u32 code turned into a PcapLink and back is the same code, 1 is
\* Ethernet and 101 is Ip, and global_header writes the code as its last
\* field.
C9_LinkCodeRoundTrip ==
    /\ PcapLinkInto(Ethernet) = BytesOfNat(1, 4)
    /\ PcapLinkInto(Ip) = BytesOfNat(101, 4)
    /\ PcapLinkFrom(BytesOfNat(1, 4)) = Ethernet
    /\ PcapLinkFrom(BytesOfNat(101, 4)) = Ip
    /\ \A v \in LinkCodes : PcapLinkInto(PcapLinkFrom(v)) = v
    /\ call.fn = "global_header" =>
         /\ sink.status = "ok"
         /\ Len(sink.bytes) >= 4
         /\ SubSeq(sink.bytes, Len(sink.bytes) - 3, Len(sink.bytes))
              = NativeOrder(PcapLinkInto(call.link))

====
